---- MODULE Spec2Model ----
(***************************************************************************)
(* Retry-with-fixed-delay capacity reservation drivers of boto3-stub:      *)
(*   cli  : CapacityReservationManager.create_reservation                  *)
(*          (capacity_reservation_cli.py), with its Stubber simulation     *)
(*   real : CapacityReservationManager.create_capacity_reservation         *)
(*          (capacity_reservation_real.py)                                 *)
(*   sim  : CapacityReservationSimulator.create_capacity_reservation_with_retry *)
(*          driven by run_simulation (capacity_reservation_test.py)        *)
(* Time is counted in whole seconds since the start of the current run.    *)
(***************************************************************************)
EXTENDS Integers, Sequences, FiniteSets, TLC

\* ---------------------------------------------------------------- bounds
\* --custom-max-retries ranges over -1 .. MaxCustomRetries
MaxCustomRetries == 4
\* --custom-retry-delay ranges over -1 .. MaxCustomDelay
MaxCustomDelay == 2
\* --max-wait-time ranges over 0 .. MaxWait, and its default
MaxWait == 3
\* one provider call lasts 0 .. MaxCallTime seconds
MaxCallTime == 1
\* the calls of one run last at most MaxTotalCallTime seconds together
MaxTotalCallTime == 1
\* create_reservation is run at most MaxRuns times on one manager
MaxRuns == 2
\* run_simulation's num_failures ranges over 0 .. MaxFailures (and the presets')
MaxFailures == 4
\* cleanup_reservation is requested at most MaxCancels times on one manager
MaxCancels == 1
\* setup_simulation or setup_failed_response is called at most MaxLateSetups
\* times on a manager after its construction
MaxLateSetups == 1

\* ------------------------------------------------------ program constants
DefaultMaxWaitTime == 3600

RETRY_CONFIG ==
  [ QUICK_RETRY     |-> [max_retries |-> 3,  retry_delay_seconds |-> 1],
    SLOW_RETRY      |-> [max_retries |-> 2,  retry_delay_seconds |-> 2],
    EXTENSIVE_RETRY |-> [max_retries |-> 20, retry_delay_seconds |-> 3] ]

RETRY_CONFIG_real ==
  [ QUICK_RETRY     |-> [max_retries |-> 3,  retry_delay_seconds |-> 1],
    SLOW_RETRY      |-> [max_retries |-> 2,  retry_delay_seconds |-> 2],
    EXTENSIVE_RETRY |-> [max_retries |-> 20, retry_delay_seconds |-> 3] ]

RETRY_CONFIG_test ==
  [ QUICK_RETRY     |-> [max_retries |-> 3,  retry_delay_seconds |-> 1, num_failures |-> 3],
    SLOW_RETRY      |-> [max_retries |-> 2,  retry_delay_seconds |-> 2, num_failures |-> 2],
    EXTENSIVE_RETRY |-> [max_retries |-> 20, retry_delay_seconds |-> 3, num_failures |-> 20] ]

PresetNames == {"QUICK_RETRY", "SLOW_RETRY", "EXTENSIVE_RETRY"}

\* Python's None, as a value of its own
None == [isNone |-> TRUE]

\* An optional integer attribute: absent (getattr gives None) or an int
Absent == [present |-> FALSE, v |-> 0]
Int_(n) == [present |-> TRUE, v |-> n]

\* `x or y` read as `y if x is None else x`: a 0 counts as a value
PyOr_NoneOnly(x, y) == IF x.present THEN x.v ELSE y

\* Python's `x or y` on an optional integer x: None and 0 are falsy
PyOr(x, y) == IF x.present /\ x.v # 0 THEN x.v ELSE y

\* Python's truthiness of an end_date argument: None ("None") and '' are falsy
Truthy(s) == s \notin {"None", ""}

\* instance_count comes as an int (argparse) or as a digit string (prompt)
IntArg(n) == [type |-> "int", v |-> n]
StrArg(n) == [type |-> "str", v |-> n]
\* Python's int(x) on either form
PyInt(x) == x.v

Min(a, b) == IF a < b THEN a ELSE b

\* ------------------------------------------------------------- error codes
CliCapacityCode  == "InsufficientCapacityError"
RealCapacityCode == "InsufficientCapacity"
SimDefaultCode   == "InsufficientCapacity"
OtherCode        == "UnauthorizedOperation"
Codes == {CliCapacityCode, RealCapacityCode, OtherCode}

\* The code each variant's source names as the capacity shortage
CapacityCode(v) ==
  IF v = "cli" THEN CliCapacityCode
  ELSE IF v = "real" THEN RealCapacityCode
  ELSE SimDefaultCode

HarnessErrors == {"UnStubbedResponseError", "StubAssertionError"}

\* ------------------------------------------------------------- responses
Response(payload) == [kind |-> "response", code |-> "", payload |-> payload]
ClientError(code) == [kind |-> "ClientError", code |-> code, payload |-> None]
HarnessError(k)   == [kind |-> k, code |-> "", payload |-> None]

\* what a response is in the history of a run
Tag(r) == IF r.kind = "response" THEN "ok"
          ELSE IF r.kind = "ClientError" THEN r.code
          ELSE r.kind

EndDateValue == "2030-12-31T23:59:59"

VARIABLES
  variant,        \* "cli" | "real" | "sim"
  args,           \* the arguments the manager was built from
  max_retries,    \* self.max_retries
  retry_delay,    \* self.retry_delay
  max_wait_time,  \* self.max_wait_time (cli)
  script,         \* every response scheduled on the Stubber, in order
  queue,          \* the Stubber's queue: scheduled responses not yet consumed
  pc,             \* "idle" | "loop" | "sleep" | "done"; "unbuilt" if __init__ raised
  attempt,        \* the local attempt counter
  elapsed,        \* time.time() - start_time of the current run
  last_error,     \* cli: last ClientError code caught, or "None"
  calls,          \* creation calls issued in the current run
  sleeps,         \* time.sleep calls made in the current run
  slept,          \* seconds slept in the current run
  sleptAfter,     \* ordinals of the calls that were followed by a sleep
  issuedAt,       \* elapsed times at which the calls were issued
  callTime,       \* seconds spent inside provider calls in the current run
  served,         \* tags of the responses the calls of this run received
  naps,           \* the sleeps of this run: when each started, how long it lasted
  trace,          \* the log entries emitted and the calls issued in this run, in order
  sent,           \* parameters of the last creation call
  response,       \* the last response received
  outcome,        \* how the run ended: "none" while running
  result,         \* what the caller gets: [raised, ret]
  runs,           \* runs started on this manager
  prev_outcome,   \* outcome of the previous run on this manager
  prev_result,    \* result of the previous run on this manager
  peer,           \* a second manager of the same process, or None
  cancels,        \* the cancel calls that reached the provider, in order
  main_exit,      \* real: how main ended, "none" while it has not
  helpers         \* cli: what a live-mode __init__ meets: "undefined" (src/
                  \* defines neither get_aws_profiles nor setup_aws_session),
                  \* or how far the supplied ones let it get

vars == << variant, args, max_retries, retry_delay, max_wait_time, script, queue,
           pc, attempt, elapsed, last_error, calls, sleeps, slept, sleptAfter,
           issuedAt, callTime, served, naps, trace, sent, response, outcome,
           result, runs, prev_outcome, prev_result, peer, cancels,
           main_exit, helpers >>

config == << variant, args, max_retries, retry_delay, max_wait_time, script,
            helpers >>

\* ------------------------------------------------- the request and the record
\* cli: expected_params of setup_simulation (the fields that vary; platform,
\* zone, tenancy, EBS flag and tags are copied from args the same way)
ExpectedParams(a) ==
  IF a.end_date_type = "limited" /\ Truthy(a.end_date)
  THEN [InstanceType |-> a.instance_type, InstanceCount |-> PyInt(a.instance_count),
        EndDateType |-> a.end_date_type, EndDate |-> a.end_date]
  ELSE [InstanceType |-> a.instance_type, InstanceCount |-> PyInt(a.instance_count),
        EndDateType |-> a.end_date_type]

\* cli: params of create_reservation
Params(a) ==
  IF a.end_date_type = "limited" /\ Truthy(a.end_date)
  THEN [InstanceType |-> a.instance_type, InstanceCount |-> PyInt(a.instance_count),
        EndDateType |-> a.end_date_type, EndDate |-> a.end_date]
  ELSE [InstanceType |-> a.instance_type, InstanceCount |-> PyInt(a.instance_count),
        EndDateType |-> a.end_date_type]

\* SuccessResponse with the end_date_type test dropped: an end date is echoed
\* whenever the arguments hold one
SuccessResponse_AnyEndDate(a) ==
  IF Truthy(a.end_date)
  THEN [CapacityReservationId |-> "cr-mock-12345", InstanceType |-> a.instance_type,
        TotalInstanceCount |-> PyInt(a.instance_count), State |-> "active",
        EndDateType |-> a.end_date_type, EndDate |-> a.end_date]
  ELSE [CapacityReservationId |-> "cr-mock-12345", InstanceType |-> a.instance_type,
        TotalInstanceCount |-> PyInt(a.instance_count), State |-> "active",
        EndDateType |-> a.end_date_type]

\* cli: success_response['CapacityReservation'] of setup_simulation
SuccessResponse(a) ==
  IF a.end_date_type = "limited" /\ Truthy(a.end_date)
  THEN [CapacityReservationId |-> "cr-mock-12345", InstanceType |-> a.instance_type,
        TotalInstanceCount |-> PyInt(a.instance_count), State |-> "active",
        EndDateType |-> a.end_date_type, EndDate |-> a.end_date]
  ELSE [CapacityReservationId |-> "cr-mock-12345", InstanceType |-> a.instance_type,
        TotalInstanceCount |-> PyInt(a.instance_count), State |-> "active",
        EndDateType |-> a.end_date_type]

\* real: keyword arguments of the creation call
RealParams(a) ==
  [InstanceType |-> a.instance_type, InstancePlatform |-> "Linux/UNIX",
   AvailabilityZone |-> "us-west-2a", InstanceCount |-> PyInt(a.instance_count),
   EndDateType |-> "unlimited"]

\* sim: keyword arguments of the creation call
SimParams ==
  [InstanceType |-> "t2.micro", InstancePlatform |-> "Linux/UNIX",
   AvailabilityZone |-> "us-west-2a", InstanceCount |-> 1]

\* sim: expected_params of setup_failed_response
SimExpectedParams ==
  [InstanceType |-> "t2.micro", InstancePlatform |-> "Linux/UNIX",
   AvailabilityZone |-> "us-west-2a", InstanceCount |-> 1]

\* ------------------------------------------------------------ the Stubber
add_client_error(code, expected) ==
  [kind |-> "error", code |-> code, service_response |-> None,
   expected_params |-> expected]

add_response(service_response, expected) ==
  [kind |-> "response", code |-> "", service_response |-> service_response,
   expected_params |-> expected]

\* One stubbed call: the head of the queue is checked against the parameters
\* and consumed; an empty queue or a mismatch is a harness error that is no
\* ClientError and consumes nothing.
StubCall(q, params) ==
  IF q = << >>
  THEN [resp |-> HarnessError("UnStubbedResponseError"), queue |-> q]
  ELSE IF Head(q).expected_params # params
  THEN [resp |-> HarnessError("StubAssertionError"), queue |-> q]
  ELSE IF Head(q).kind = "error"
  THEN [resp |-> ClientError(Head(q).code), queue |-> Tail(q)]
  ELSE [resp |-> Response(Head(q).service_response), queue |-> Tail(q)]

\* The live provider: any answer to a well-formed request
LiveRecord(params) ==
  IF "EndDate" \in DOMAIN params
  THEN [CapacityReservationId |-> "cr-live", InstanceType |-> params.InstanceType,
        TotalInstanceCount |-> params.InstanceCount, State |-> "active",
        EndDateType |-> params.EndDateType, EndDate |-> params.EndDate]
  ELSE [CapacityReservationId |-> "cr-live", InstanceType |-> params.InstanceType,
        TotalInstanceCount |-> params.InstanceCount, State |-> "active",
        EndDateType |-> params.EndDateType]

LiveCall(q, params) ==
  { [resp |-> r, queue |-> q] :
      r \in {Response(LiveRecord(params))} \cup {ClientError(c) : c \in Codes} }

\* ------------------------------------------------------- the retry policy
\* cli __init__: preset value unless the override is truthy
EffectiveMaxRetries(a) ==
  PyOr(a.custom_max_retries, RETRY_CONFIG[a.retry_config].max_retries)

EffectiveRetryDelay(a) ==
  PyOr(a.custom_retry_delay, RETRY_CONFIG[a.retry_config].retry_delay_seconds)

\* SimulationErrors scheduling one error only
SimulationErrors_OneError(a, n) ==
  IF n > 0
  THEN [i \in 1..Min(1, n) |-> add_client_error(CliCapacityCode, ExpectedParams(a))]
  ELSE << >>

\* cli setup_simulation: the scheduled responses
SimulationErrors(a, n) ==
  IF n > 0
  THEN [i \in 1..Min(2, n) |-> add_client_error(CliCapacityCode, ExpectedParams(a))]
  ELSE << >>

setup_simulation(a, n) ==
  SimulationErrors(a, n) \o << add_response(SuccessResponse(a), ExpectedParams(a)) >>

\* sim run_simulation: num_failures calls of setup_failed_response
setup_failed_response(error_code) == add_client_error(error_code, SimExpectedParams)

run_simulation_script(num_failures, error_code) ==
  [i \in 1..num_failures |-> setup_failed_response(error_code)]

\* ------------------------------------------------------- classification
\* cli_classify testing for the code the real driver tests for
cli_classify_OtherSpelling(r) ==
  IF r.kind = "response" THEN "success"
  ELSE IF r.kind = "ClientError"
  THEN (IF r.code = "InsufficientCapacity" THEN "retryable" ELSE "fatal")
  ELSE "propagate"

\* cli_classify retrying every ClientError
cli_classify_RetryAll(r) ==
  IF r.kind = "response" THEN "success"
  ELSE IF r.kind = "ClientError" THEN "retryable"
  ELSE "propagate"

\* cli: try / except ClientError of create_reservation
\*   "success" | "retryable" | "fatal" | "propagate"
cli_classify(r) ==
  IF r.kind = "response" THEN "success"
  ELSE IF r.kind = "ClientError"
  THEN (IF r.code = "InsufficientCapacityError" THEN "retryable" ELSE "fatal")
  ELSE "propagate"

\* real: try / except ClientError of create_capacity_reservation
real_classify(r) ==
  IF r.kind = "response" THEN "success"
  ELSE IF r.kind = "ClientError"
  THEN (IF r.code = "InsufficientCapacity" THEN "retryable" ELSE "fatal")
  ELSE "propagate"

\* sim_classify with a bare except: harness errors are retried too
sim_classify_BareExcept(r) ==
  IF r.kind = "response" THEN "success" ELSE "retryable"

\* sim: every ClientError is retried, whatever its code
sim_classify(r) ==
  IF r.kind = "response" THEN "success"
  ELSE IF r.kind = "ClientError" THEN "retryable"
  ELSE "propagate"

\* the cli while condition off by one
cli_loop_guard_OffByOne(att, n) == att <= n

\* the while conditions
cli_loop_guard(att, n)  == att < n
real_loop_guard(att, n) == att < n
sim_loop_guard(att, n)  == att < n

\* the deadline check with a strict comparison
deadline_exceeded_Strict(elapsed_time, wait) == elapsed_time > wait

\* the deadline check left out
deadline_exceeded_Never(elapsed_time, wait) == FALSE

\* cli: the deadline check that opens every iteration
deadline_exceeded(elapsed_time, wait) == elapsed_time >= wait

\* the cli sleeping after the final attempt as well
cli_should_sleep_Always(att, n) == att <= n

\* the conditions under which a retryable failure is followed by a sleep
\* (cli counts attempts from 1, real and sim from 0)
cli_should_sleep(att, n)  == att < n
real_should_sleep(att, n) == att < n - 1
sim_should_sleep(att, n)  == att < n - 1

\* the length of the k-th sleep growing with k
sleep_length_Growing(delay, k) == delay * k

\* time.sleep(self.retry_delay): the length of the k-th sleep of a run
sleep_length(delay, k) == delay

\* the attempt counter left as it is
next_attempt_Stuck(att) == att

\* attempt += 1
next_attempt(att) == att + 1

\* ----------------------------------------------------------------- the log
\* the numeric severities of the logging module
LevelNo(l) ==
  CASE l = "DEBUG" -> 10
    [] l = "INFO" -> 20
    [] l = "WARNING" -> 30
    [] l = "ERROR" -> 40
    [] OTHER -> 50

\* one logger call, one print, one creation call
Entry(level, msg, k, n) ==
  [ev |-> "log", level |-> level, msg |-> msg, k |-> k, n |-> n, tag |-> ""]
Printed(msg, k, n) ==
  [ev |-> "print", level |-> "", msg |-> msg, k |-> k, n |-> n, tag |-> ""]
CallEvent(tag) ==
  [ev |-> "call", level |-> "", msg |-> "", k |-> 0, n |-> 0, tag |-> tag]

\* what of a sequence of events shows when the root logger's level is
\* threshold: a logger call below the threshold emits nothing
Logged(threshold, events) ==
  SelectSeq(events, LAMBDA e : e.ev # "log" \/ LevelNo(e.level) >= LevelNo(threshold))

\* the root logger's level: cli sets it from --log-level, real leaves it at
\* basicConfig's INFO, sim prints
LogLevel(v, a) == IF v = "cli" THEN a.log_level ELSE "INFO"

\* the cli logging its counter from zero, as the other two drivers count
cli_log_attempt_ZeroBased(att, n) == Entry("INFO", "Attempt", att - 1, n)

\* cli: 'Attempt {attempt} of {max_retries}', attempt already incremented
cli_log_attempt(att, n) == Entry("INFO", "Attempt", att, n)

cli_log_timeout(wait) == Entry("ERROR", "Maximum wait time exceeded", 0, wait)

cli_log_success ==
  << Entry("INFO", "Successfully created capacity reservation", 0, 0),
     Entry("INFO", "Status", 0, 0),
     Entry("INFO", "Instance Type", 0, 0),
     Entry("INFO", "Instance Count", 0, 0),
     Entry("INFO", "Platform", 0, 0),
     Entry("INFO", "Availability Zone", 0, 0) >>

\* cli: what is logged after a call classified c; wait says a sleep follows
cli_log_outcome(c, wait, delay) ==
  IF c = "success" THEN cli_log_success
  ELSE IF c = "retryable"
  THEN << Entry("WARNING", "Insufficient capacity", 0, 0) >>
       \o (IF wait THEN << Entry("INFO", "Retrying", 0, delay) >> ELSE << >>)
  ELSE IF c = "fatal"
  THEN << Entry("ERROR", "Error creating capacity reservation", 0, 0) >>
  ELSE << >>

\* cli 664-665, the lines after the loop: 'Failed after {attempt} attempts'
\* if an error was caught in this run
cli_log_exit(err, att) ==
  IF err # "None" THEN << Entry("ERROR", "Failed after", att, 0) >> ELSE << >>

\* cli 662: `break` after an error that is no shortage leaves the loop for
\* the lines after it, with last_error set to the error just caught
cli_log_break(c, err, att) ==
  IF c = "fatal" THEN cli_log_exit(err, att) ELSE << >>

\* real: 'Attempt {attempt + 1} of {max_retries}'
real_log_attempt(att, n) == Entry("INFO", "Attempt", att + 1, n)

real_log_outcome(c, wait, delay) ==
  IF c = "success"
  THEN << Entry("INFO", "Successfully created capacity reservation", 0, 0) >>
  ELSE IF c = "retryable"
  THEN << Entry("WARNING", "Insufficient capacity error", 0, 0) >>
       \o (IF wait THEN << Entry("INFO", "Waiting", 0, delay) >> ELSE << >>)
  ELSE IF c = "fatal"
  THEN << Entry("ERROR", "AWS Error", 0, 0) >>
  ELSE << >>

real_log_exit == << Entry("ERROR", "Max retries exceeded", 0, 0) >>

\* sim: print(f"Attempt {attempt + 1} of {max_retries}")
sim_log_attempt(att, n) == Printed("Attempt", att + 1, n)

sim_log_outcome(c, wait, delay) ==
  IF c = "retryable"
  THEN << Printed("Error occurred", 0, 0) >>
       \o (IF wait THEN << Printed("Waiting", 0, delay) >> ELSE << >>)
  ELSE << >>

sim_log_exit == << Printed("Max retries exceeded", 0, 0) >>

\* ------------------------------------------------------------------ inputs
CustomRetries == {Int_(n) : n \in -1..MaxCustomRetries}
CustomDelays  == {Int_(n) : n \in -1..MaxCustomDelay}
WaitTimes     == (0..MaxWait) \cup {DefaultMaxWaitTime}

\* cli, parse_args: every combination of the retry options, for the default
\* request; simulation_mode FALSE is a manager asked for with a dictionary
\* that says so, as cli 242 and 765 do (parse_args itself always says TRUE)
PolicyArgs ==
  [ retry_config : PresetNames,
    custom_max_retries : CustomRetries,
    custom_retry_delay : CustomDelays,
    max_wait_time : WaitTimes,
    simulation_mode : BOOLEAN,
    instance_type : {"t2.micro"},
    instance_count : {IntArg(1)},
    end_date_type : {"unlimited"},
    end_date : {"None"},
    sim_max_retries : {0}, sim_retry_delay : {0}, num_failures : {0},
    error_code : {""}, log_level : {"INFO"},
    cleanup_on_failure : {FALSE} ]

\* cli, parse_args: every combination of the request options, for the presets
RequestArgs ==
  [ retry_config : PresetNames,
    custom_max_retries : {Int_(0)},
    custom_retry_delay : {Int_(0)},
    max_wait_time : {DefaultMaxWaitTime},
    simulation_mode : BOOLEAN,
    instance_type : {"t2.micro"},
    instance_count : {IntArg(1), IntArg(2)},
    end_date_type : {"unlimited", "limited"},
    end_date : {"None", "", EndDateValue},
    sim_max_retries : {0}, sim_retry_delay : {0}, num_failures : {0},
    error_code : {""}, log_level : {"INFO"},
    cleanup_on_failure : {FALSE} ]

\* cli, get_interactive_choices: no override attributes, the defaults of the
\* prompt path, the count as the digit string typed, an end date only if limited
PromptArgs ==
  [ retry_config : {"QUICK_RETRY"},
    custom_max_retries : {Absent},
    custom_retry_delay : {Absent},
    max_wait_time : {DefaultMaxWaitTime},
    simulation_mode : {TRUE},
    instance_type : {"t2.micro"},
    instance_count : {StrArg(1), StrArg(2)},
    end_date_type : {"unlimited"},
    end_date : {"None", ""},
    sim_max_retries : {0}, sim_retry_delay : {0}, num_failures : {0},
    error_code : {""}, log_level : {"INFO"},
    cleanup_on_failure : {FALSE} ]
  \cup
  [ retry_config : {"QUICK_RETRY"},
    custom_max_retries : {Absent},
    custom_retry_delay : {Absent},
    max_wait_time : {DefaultMaxWaitTime},
    simulation_mode : {TRUE},
    instance_type : {"t2.micro"},
    instance_count : {StrArg(1), StrArg(2)},
    end_date_type : {"limited"},
    end_date : {EndDateValue},
    sim_max_retries : {0}, sim_retry_delay : {0}, num_failures : {0},
    error_code : {""}, log_level : {"INFO"},
    cleanup_on_failure : {FALSE} ]

\* cli, parse_args: the --log-level choices other than the default
LogLevelArgs ==
  [ retry_config : {"QUICK_RETRY", "SLOW_RETRY"},
    custom_max_retries : {Int_(0)},
    custom_retry_delay : {Int_(0)},
    max_wait_time : {DefaultMaxWaitTime},
    simulation_mode : BOOLEAN,
    instance_type : {"t2.micro"},
    instance_count : {IntArg(1)},
    end_date_type : {"unlimited"},
    end_date : {"None"},
    sim_max_retries : {0}, sim_retry_delay : {0}, num_failures : {0},
    error_code : {""}, log_level : {"DEBUG", "WARNING", "ERROR"},
    cleanup_on_failure : {FALSE} ]

\* cli, parse_args: --cleanup-on-failure given
CleanupArgs ==
  [ retry_config : {"QUICK_RETRY", "SLOW_RETRY"},
    custom_max_retries : {Int_(0)},
    custom_retry_delay : {Int_(0)},
    max_wait_time : {1, DefaultMaxWaitTime},
    simulation_mode : BOOLEAN,
    instance_type : {"t2.micro"},
    instance_count : {IntArg(1)},
    end_date_type : {"unlimited"},
    end_date : {"None"},
    sim_max_retries : {0}, sim_retry_delay : {0}, num_failures : {0},
    error_code : {""}, log_level : {"INFO"},
    cleanup_on_failure : {TRUE} ]

CliArgs == PolicyArgs \cup RequestArgs \cup PromptArgs \cup LogLevelArgs \cup CleanupArgs

\* real: the manager takes a preset name only; main reserves one t2.micro
RealArgs ==
  [ retry_config : PresetNames,
    custom_max_retries : {Absent}, custom_retry_delay : {Absent},
    max_wait_time : {0}, simulation_mode : {FALSE},
    instance_type : {"t2.micro"}, instance_count : {IntArg(1)},
    end_date_type : {"unlimited"}, end_date : {"None"},
    sim_max_retries : {0}, sim_retry_delay : {0}, num_failures : {0},
    error_code : {""}, log_level : {"INFO"},
    cleanup_on_failure : {FALSE} ]

\* sim: run_simulation(max_retries, retry_delay, num_failures), the three
\* presets of its __main__ among them, and the code handed to
\* setup_failed_response
SimTriples ==
  { << RETRY_CONFIG_test[p].max_retries, RETRY_CONFIG_test[p].retry_delay_seconds,
       RETRY_CONFIG_test[p].num_failures >> : p \in PresetNames }
  \cup ((-1..MaxCustomRetries) \X (-1..MaxCustomDelay) \X (0..MaxFailures))

SimArgs ==
  { [ retry_config |-> "QUICK_RETRY",
      custom_max_retries |-> Absent, custom_retry_delay |-> Absent,
      max_wait_time |-> 0, simulation_mode |-> TRUE,
      instance_type |-> "t2.micro", instance_count |-> IntArg(1),
      end_date_type |-> "unlimited", end_date |-> "None",
      sim_max_retries |-> t[1], sim_retry_delay |-> t[2], num_failures |-> t[3],
      error_code |-> c, log_level |-> "INFO",
      cleanup_on_failure |-> FALSE ] : t \in SimTriples, c \in Codes }

ArgsOf(v) == IF v = "cli" THEN CliArgs ELSE IF v = "real" THEN RealArgs ELSE SimArgs

\* ------------------------------------------------------------ construction
InitMaxRetries(v, a) ==
  IF v = "cli" THEN EffectiveMaxRetries(a)
  ELSE IF v = "real" THEN RETRY_CONFIG_real[a.retry_config].max_retries
  ELSE a.sim_max_retries

InitRetryDelay(v, a) ==
  IF v = "cli" THEN EffectiveRetryDelay(a)
  ELSE IF v = "real" THEN RETRY_CONFIG_real[a.retry_config].retry_delay_seconds
  ELSE a.sim_retry_delay

\* the client is stubbed in the simulator and in the cli's simulation mode
Stubbed(v, a) == v = "sim" \/ (v = "cli" /\ a.simulation_mode)

InitScript(v, a) ==
  IF v = "cli" /\ a.simulation_mode THEN setup_simulation(a, EffectiveMaxRetries(a))
  ELSE IF v = "sim" THEN run_simulation_script(a.num_failures, a.error_code)
  ELSE << >>

NoResult   == [raised |-> "none", ret |-> None]
Return(x)  == [raised |-> "none", ret |-> x]
Raise(k)   == [raised |-> k, ret |-> None]

\* what a live-mode cli __init__ can meet (cli 397-437):
\*   "undefined"        get_aws_profiles is not a name of the module (407)
\*   "no_profiles"      get_aws_profiles() returns no profile (409-411)
\*   "prompt_cancelled" the profile question is cancelled (421-424)
\*   "no_session"       setup_aws_session(profile) returns nothing (427-430)
\*   "no_identity"      sts get_caller_identity is refused (435-436)
\*   "session"          every step succeeds
SuppliedHelpers ==
  {"no_profiles", "prompt_cancelled", "no_session", "no_identity", "session"}

\* cli __init__ 397-444: in simulation mode the helpers are not consulted;
\* otherwise the constructor returns only if every step succeeds
init_completes(v, a, h) == v # "cli" \/ a.simulation_mode \/ h = "session"

\* the exception that leaves a cli __init__ that does not complete: NameError
\* for the undefined name, SystemExit for the three sys.exit(1), the provider's
\* ClientError for the refused identity call
init_raises(h) ==
  IF h = "undefined" THEN "NameError"
  ELSE IF h = "no_identity" THEN "ClientError"
  ELSE "SystemExit"

\* the state a constructor call leaves when a live-mode cli __init__ meets h
NewManager(h) ==
  /\ helpers = h
  /\ variant \in {"cli", "real", "sim"}
  /\ args \in ArgsOf(variant)
  /\ max_retries = InitMaxRetries(variant, args)
  /\ retry_delay = InitRetryDelay(variant, args)
  /\ max_wait_time = args.max_wait_time
  /\ script = InitScript(variant, args)
  /\ queue = script
  /\ pc = IF init_completes(variant, args, h) THEN "idle" ELSE "unbuilt"
  /\ attempt = 0
  /\ elapsed = 0
  /\ last_error = "None"
  /\ calls = 0
  /\ sleeps = 0
  /\ slept = 0
  /\ sleptAfter = {}
  /\ issuedAt = {}
  /\ callTime = 0
  /\ served = << >>
  /\ naps = << >>
  /\ trace = << >>
  /\ sent = None
  /\ response = None
  /\ outcome = "none"
  /\ result = IF init_completes(variant, args, h) THEN NoResult
              ELSE Raise(init_raises(h))
  /\ runs = 0
  /\ prev_outcome = "none"
  /\ prev_result = NoResult
  /\ peer = None
  /\ cancels = << >>
  /\ main_exit = "none"

\* the repository as it is: the helpers are not defined
Init == NewManager("undefined")

\* the cli module with get_aws_profiles and setup_aws_session supplied by the
\* caller's environment, so that a manager for a live client can be built; the
\* constructors that do not consult the helpers are taken with "session" only
InitSupplied ==
  \E h \in SuppliedHelpers :
    /\ NewManager(h)
    /\ h # "session" => (variant = "cli" /\ ~args.simulation_mode)

\* ------------------------------------------------------------ shared steps
\* entry of a driver method: the locals of a fresh run
StartRun ==
  /\ pc \in {"idle", "done"}
  /\ main_exit = "none"
  /\ runs < MaxRuns
  /\ runs' = runs + 1
  /\ prev_outcome' = outcome
  /\ prev_result' = result
  /\ pc' = "loop"
  /\ attempt' = 0
  /\ elapsed' = 0
  /\ last_error' = "None"
  /\ calls' = 0
  /\ sleeps' = 0
  /\ slept' = 0
  /\ sleptAfter' = {}
  /\ issuedAt' = {}
  /\ callTime' = 0
  /\ served' = << >>
  /\ naps' = << >>
  /\ trace' = << >>
  /\ sent' = None
  /\ response' = None
  /\ outcome' = "none"
  /\ result' = NoResult
  /\ UNCHANGED << config, peer, main_exit, cancels, queue >>

\* the client call: stubbed or live
ec2_client_call(params) ==
  IF Stubbed(variant, args) THEN {StubCall(queue, params)} ELSE LiveCall(queue, params)

CallTimes == { d \in 0..MaxCallTime : callTime + d <= MaxTotalCallTime }

\* one creation call issued with params, answered by o after dur seconds
Issue(params, o, dur) ==
  /\ calls' = calls + 1
  /\ issuedAt' = issuedAt \cup {elapsed}
  /\ sent' = params
  /\ response' = o.resp
  /\ served' = Append(served, Tag(o.resp))
  /\ queue' = o.queue
  /\ elapsed' = elapsed + dur
  /\ callTime' = callTime + dur

\* time.sleep(self.retry_delay): a negative length raises ValueError
Sleep ==
  IF retry_delay < 0
  THEN /\ pc' = "done"
       /\ outcome' = "error"
       /\ result' = Raise("ValueError")
       /\ UNCHANGED << sleeps, slept, sleptAfter, naps, elapsed >>
  ELSE LET len == sleep_length(retry_delay, sleeps + 1) IN
       /\ pc' = "loop"
       /\ sleeps' = sleeps + 1
       /\ slept' = slept + len
       /\ sleptAfter' = sleptAfter \cup {calls}
       /\ naps' = Append(naps, [at |-> elapsed, len |-> len, after |-> calls])
       /\ elapsed' = elapsed + len
       /\ UNCHANGED << outcome, result >>

\* one cancel call: the identifier, the operation that issued it, and whether
\* the provider refused it
Cancel(id, op, refused) == [id |-> id, op |-> op, refused |-> refused]

\* the driver honouring --cleanup-on-failure: a run that fails cancels
run_cleanup_OnFailure(a, out) ==
  IF a.cleanup_on_failure /\ out \in {"timeout", "exhausted", "fatal"}
  THEN << Cancel("cr-mock-12345", "create_reservation", FALSE) >>
  ELSE << >>

\* the cancel calls a driver's step issues when it leaves the run in outcome
\* out: none, as no driver method calls cancel_capacity_reservation and the
\* cli parses --cleanup-on-failure without ever reading it
run_cleanup(a, out) == << >>

OutcomeOf(c) ==
  IF c = "success" THEN "success"
  ELSE IF c = "fatal" THEN "fatal"
  ELSE IF c = "propagate" THEN "harness"
  ELSE "none"

\* ------------------------------------------------------------------- cli
\* cli_result handing the error back as the second element of the pair
cli_result_ReturnsError(c, resp, cur) ==
  IF c = "success" THEN Return(<< TRUE, resp.payload >>)
  ELSE IF c = "fatal" THEN Return(<< FALSE, resp >>)
  ELSE IF c = "propagate" THEN Raise(resp.kind)
  ELSE cur

\* what create_reservation returns or raises after a call classified c; after
\* a shortage the loop goes on and nothing is returned yet
cli_result(c, resp, cur) ==
  IF c = "success" THEN Return(<< TRUE, resp.payload >>)
  ELSE IF c = "fatal" THEN Return(<< FALSE, None >>)
  ELSE IF c = "propagate" THEN Raise(resp.kind)
  ELSE cur

create_reservation ==
  /\ variant = "cli"
  /\ StartRun

create_reservation_attempt ==
  /\ variant = "cli"
  /\ pc = "loop"
  /\ cli_loop_guard(attempt, max_retries)
  /\ attempt' = next_attempt(attempt)
  /\ IF deadline_exceeded(elapsed, max_wait_time)
     THEN /\ pc' = "done"
          /\ outcome' = "timeout"
          /\ result' = Return(<< FALSE, None >>)
          /\ trace' = trace \o Logged(LogLevel(variant, args),
                                      << cli_log_timeout(max_wait_time) >>)
          /\ UNCHANGED << calls, issuedAt, sent, response, served, queue, elapsed,
                          callTime, last_error >>
     ELSE \E o \in ec2_client_call(Params(args)), dur \in CallTimes :
            /\ Issue(Params(args), o, dur)
            /\ LET c == cli_classify(o.resp)
                   wait == cli_should_sleep(next_attempt(attempt), max_retries)
               IN
                 /\ last_error' = IF c \in {"retryable", "fatal"} THEN o.resp.code
                                  ELSE last_error
                 /\ pc' = IF c = "retryable"
                          THEN (IF wait THEN "sleep" ELSE "loop")
                          ELSE "done"
                 /\ trace' = trace \o Logged(LogLevel(variant, args),
                      << cli_log_attempt(next_attempt(attempt), max_retries),
                         CallEvent(Tag(o.resp)) >>
                      \o cli_log_outcome(c, c = "retryable" /\ wait, retry_delay)
                      \o cli_log_break(c, o.resp.code, next_attempt(attempt)))
                 /\ outcome' = OutcomeOf(c)
                 /\ result' = cli_result(c, o.resp, result)
  /\ cancels' = cancels \o run_cleanup(args, outcome')
  /\ UNCHANGED << config, peer, main_exit, sleeps, slept, sleptAfter, naps, runs, prev_outcome,
                  prev_result >>

create_reservation_sleep ==
  /\ variant = "cli"
  /\ pc = "sleep"
  /\ Sleep
  /\ UNCHANGED << config, peer, main_exit, cancels, queue, attempt, last_error, calls, issuedAt, callTime,
                  served, trace, sent, response, runs, prev_outcome, prev_result >>

create_reservation_exit ==
  /\ variant = "cli"
  /\ pc = "loop"
  /\ ~cli_loop_guard(attempt, max_retries)
  /\ pc' = "done"
  /\ outcome' = IF last_error # "None" THEN "exhausted" ELSE "zero"
  /\ result' = Return(<< FALSE, None >>)
  /\ trace' = trace \o Logged(LogLevel(variant, args), cli_log_exit(last_error, attempt))
  /\ cancels' = cancels \o run_cleanup(args, outcome')
  /\ UNCHANGED << config, peer, main_exit, queue, attempt, elapsed, last_error, calls, sleeps, slept,
                  sleptAfter, issuedAt, callTime, served, naps, sent, response, runs,
                  prev_outcome, prev_result >>

\* ------------------------------------------------------------------ real
create_capacity_reservation ==
  /\ variant = "real"
  /\ StartRun

create_capacity_reservation_attempt ==
  /\ variant = "real"
  /\ pc = "loop"
  /\ real_loop_guard(attempt, max_retries)
  /\ \E o \in ec2_client_call(RealParams(args)), dur \in CallTimes :
       /\ Issue(RealParams(args), o, dur)
       /\ LET c == real_classify(o.resp)
              retry == c = "retryable"
              wait == real_should_sleep(attempt, max_retries)
          IN /\ pc' = IF retry THEN (IF wait THEN "sleep" ELSE "loop") ELSE "done"
             /\ attempt' = IF retry /\ ~wait THEN next_attempt(attempt) ELSE attempt
             /\ trace' = trace \o Logged(LogLevel(variant, args),
                  << real_log_attempt(attempt, max_retries), CallEvent(Tag(o.resp)) >>
                  \o real_log_outcome(c, retry /\ wait, retry_delay))
             /\ outcome' = OutcomeOf(c)
             /\ result' = IF c = "success" THEN Return(o.resp.payload)
                          ELSE IF c = "fatal" THEN Raise("ClientError")
                          ELSE IF c = "propagate" THEN Raise(o.resp.kind)
                          ELSE result
  /\ cancels' = cancels \o run_cleanup(args, outcome')
  /\ UNCHANGED << config, peer, main_exit, last_error, sleeps, slept, sleptAfter, naps, runs,
                  prev_outcome, prev_result >>

create_capacity_reservation_sleep ==
  /\ variant = "real"
  /\ pc = "sleep"
  /\ Sleep
  /\ attempt' = IF retry_delay < 0 THEN attempt ELSE next_attempt(attempt)
  /\ UNCHANGED << config, peer, main_exit, cancels, queue, last_error, calls, issuedAt, callTime,
                  served, trace, sent, response, runs, prev_outcome, prev_result >>

create_capacity_reservation_exit ==
  /\ variant = "real"
  /\ pc = "loop"
  /\ ~real_loop_guard(attempt, max_retries)
  /\ pc' = "done"
  /\ outcome' = "exhausted"
  /\ result' = Return(None)
  /\ trace' = trace \o Logged(LogLevel(variant, args), real_log_exit)
  /\ cancels' = cancels \o run_cleanup(args, outcome')
  /\ UNCHANGED << config, peer, main_exit, queue, attempt, elapsed, last_error, calls, sleeps, slept,
                  sleptAfter, issuedAt, callTime, served, naps, sent, response, runs,
                  prev_outcome, prev_result >>

\* the identifiers a caller may hand to cleanup_reservation
ReservationIds == {"cr-live", "cr-other"}

\* cleanup_reservation(reservation_id), called by whoever holds the manager
\* while no run is in progress: one cancel call, whose ClientError is logged
\* and raised again
cleanup_reservation ==
  /\ variant = "real"
  /\ pc \in {"idle", "done"}
  /\ main_exit = "none"
  /\ Len(cancels) < MaxCancels
  /\ \E id \in ReservationIds, refused \in BOOLEAN :
       cancels' = Append(cancels, Cancel(id, "cleanup_reservation", refused))
  /\ UNCHANGED << config, peer, main_exit, queue, pc, attempt, elapsed, last_error, calls, sleeps,
                  slept, sleptAfter, issuedAt, callTime, served, naps, trace, sent,
                  response, outcome, result, runs, prev_outcome, prev_result >>

\* the keys main reads from the reservation before it cleans up
MainReads == {"CapacityReservationId", "InstanceType", "InstanceCount",
              "AvailabilityZone"}

\* main, after create_capacity_reservation has returned or raised on the
\* manager it built with EXTENSIVE_RETRY: a ClientError is logged; a
\* reservation is reported key by key (a missing key is a KeyError that ends
\* main) and then cleaned up
main ==
  /\ variant = "real"
  /\ args.retry_config = "EXTENSIVE_RETRY"
  /\ runs = 1
  /\ pc = "done"
  /\ main_exit = "none"
  /\ IF result.raised = "ClientError"
     THEN main_exit' = "returned" /\ UNCHANGED cancels
     ELSE IF result.raised # "none"
     THEN main_exit' = result.raised /\ UNCHANGED cancels
     ELSE IF result.ret = None
     THEN main_exit' = "returned" /\ UNCHANGED cancels
     ELSE IF ~(MainReads \subseteq DOMAIN result.ret)
     THEN main_exit' = "KeyError" /\ UNCHANGED cancels
     ELSE /\ \E refused \in BOOLEAN :
               cancels' = Append(cancels,
                 Cancel(result.ret.CapacityReservationId, "cleanup_reservation", refused))
          /\ main_exit' = "returned"
  /\ UNCHANGED << config, peer, queue, pc, attempt, elapsed, last_error, calls, sleeps,
                  slept, sleptAfter, issuedAt, callTime, served, naps, trace, sent,
                  response, outcome, result, runs, prev_outcome, prev_result >>

\* ------------------------------------------------------------------- sim
create_capacity_reservation_with_retry ==
  /\ variant = "sim"
  /\ StartRun

create_capacity_reservation_with_retry_attempt ==
  /\ variant = "sim"
  /\ pc = "loop"
  /\ sim_loop_guard(attempt, max_retries)
  /\ \E o \in ec2_client_call(SimParams), dur \in CallTimes :
       /\ Issue(SimParams, o, dur)
       /\ LET c == sim_classify(o.resp)
              retry == c = "retryable"
              wait == sim_should_sleep(attempt, max_retries)
          IN /\ pc' = IF retry THEN (IF wait THEN "sleep" ELSE "loop") ELSE "done"
             /\ attempt' = IF retry /\ ~wait THEN next_attempt(attempt) ELSE attempt
             /\ trace' = trace \o Logged(LogLevel(variant, args),
                  << sim_log_attempt(attempt, max_retries), CallEvent(Tag(o.resp)) >>
                  \o sim_log_outcome(c, retry /\ wait, retry_delay))
             /\ outcome' = OutcomeOf(c)
             /\ result' = IF c = "success" THEN Return(o.resp.payload)
                          ELSE IF c = "propagate" THEN Raise(o.resp.kind)
                          ELSE result
  /\ cancels' = cancels \o run_cleanup(args, outcome')
  /\ UNCHANGED << config, peer, main_exit, last_error, sleeps, slept, sleptAfter, naps, runs,
                  prev_outcome, prev_result >>

create_capacity_reservation_with_retry_sleep ==
  /\ variant = "sim"
  /\ pc = "sleep"
  /\ Sleep
  /\ attempt' = IF retry_delay < 0 THEN attempt ELSE next_attempt(attempt)
  /\ UNCHANGED << config, peer, main_exit, cancels, queue, last_error, calls, issuedAt, callTime,
                  served, trace, sent, response, runs, prev_outcome, prev_result >>

create_capacity_reservation_with_retry_exit ==
  /\ variant = "sim"
  /\ pc = "loop"
  /\ ~sim_loop_guard(attempt, max_retries)
  /\ pc' = "done"
  /\ outcome' = "exhausted"
  /\ result' = Return(None)
  /\ trace' = trace \o Logged(LogLevel(variant, args), sim_log_exit)
  /\ cancels' = cancels \o run_cleanup(args, outcome')
  /\ UNCHANGED << config, peer, main_exit, queue, attempt, elapsed, last_error, calls, sleeps, slept,
                  sleptAfter, issuedAt, callTime, served, naps, sent, response, runs,
                  prev_outcome, prev_result >>

\* ------------------------------------------------------- late scheduling
\* setup_simulation() called again on a built simulation-mode manager, while
\* no run is in progress: the same responses are scheduled once more, behind
\* those still in the queue (on a live-mode manager there is no self.stubber
\* and the call raises AttributeError before it changes anything)
setup_simulation_again ==
  /\ variant = "cli"
  /\ args.simulation_mode
  /\ pc \in {"idle", "done"}
  /\ Len(script) < (1 + MaxLateSetups) * Len(setup_simulation(args, max_retries))
  /\ script' = script \o setup_simulation(args, max_retries)
  /\ queue' = queue \o setup_simulation(args, max_retries)
  /\ UNCHANGED << variant, args, max_retries, retry_delay, max_wait_time, helpers,
                  peer, main_exit, cancels, pc, attempt, elapsed, last_error, calls,
                  sleeps, slept, sleptAfter, issuedAt, callTime, served, naps, trace,
                  sent, response, outcome, result, runs, prev_outcome, prev_result >>

\* setup_failed_response(error_code) called on a built simulator beyond the
\* num_failures calls of run_simulation, while no run is in progress: one more
\* error is scheduled behind those still in the queue
setup_failed_response_again ==
  /\ variant = "sim"
  /\ pc \in {"idle", "done"}
  /\ Len(script) < Len(run_simulation_script(args.num_failures, args.error_code))
                     + MaxLateSetups
  /\ \E c \in Codes :
       /\ script' = Append(script, setup_failed_response(c))
       /\ queue' = Append(queue, setup_failed_response(c))
  /\ UNCHANGED << variant, args, max_retries, retry_delay, max_wait_time, helpers,
                  peer, main_exit, cancels, pc, attempt, elapsed, last_error, calls,
                  sleeps, slept, sleptAfter, issuedAt, callTime, served, naps, trace,
                  sent, response, outcome, result, runs, prev_outcome, prev_result >>

\* ------------------------------------------------------------------ system
\* the steps of the three drivers
DriverNext ==
  \/ create_reservation
  \/ create_reservation_attempt
  \/ create_reservation_sleep
  \/ create_reservation_exit
  \/ create_capacity_reservation
  \/ create_capacity_reservation_attempt
  \/ create_capacity_reservation_sleep
  \/ create_capacity_reservation_exit
  \/ create_capacity_reservation_with_retry
  \/ create_capacity_reservation_with_retry_attempt
  \/ create_capacity_reservation_with_retry_sleep
  \/ create_capacity_reservation_with_retry_exit

Next ==
  \/ create_reservation
  \/ create_reservation_attempt
  \/ create_reservation_sleep
  \/ create_reservation_exit
  \/ create_capacity_reservation
  \/ create_capacity_reservation_attempt
  \/ create_capacity_reservation_sleep
  \/ create_capacity_reservation_exit
  \/ create_capacity_reservation_with_retry
  \/ create_capacity_reservation_with_retry_attempt
  \/ create_capacity_reservation_with_retry_sleep
  \/ create_capacity_reservation_with_retry_exit
  \/ setup_simulation_again
  \/ setup_failed_response_again

Spec == Init /\ [][Next]_vars

\* the drivers in a process where the two helpers are defined, on the
\* managers as their constructors leave them
SuppliedSpec == InitSupplied /\ [][DriverNext]_vars

\* the steps inside a run: once a driver method is entered the interpreter
\* keeps executing it, every provider call returns and every sleep ends
RunStep ==
  \/ create_reservation_attempt
  \/ create_reservation_sleep
  \/ create_reservation_exit
  \/ create_capacity_reservation_attempt
  \/ create_capacity_reservation_sleep
  \/ create_capacity_reservation_exit
  \/ create_capacity_reservation_with_retry_attempt
  \/ create_capacity_reservation_with_retry_sleep
  \/ create_capacity_reservation_with_retry_exit

\* the run of a freshly built manager
FirstRun ==
  /\ runs = 0
  /\ \/ create_reservation
     \/ create_capacity_reservation
     \/ create_capacity_reservation_with_retry

LiveNext == FirstRun \/ RunStep

\* taken in a process where the two helpers are defined, so that the cli
\* driver's run against a live client is among the runs
LiveSpec == InitSupplied /\ [][LiveNext]_vars /\ WF_vars(RunStep)

\* the drivers together with the companion cleanup operation and the caller
\* of the real script: the run of a freshly built manager, cleanup requests
\* before and after it, and main's handling of what the run gave
CleanupNext ==
  \/ FirstRun
  \/ RunStep
  \/ cleanup_reservation
  \/ main

CleanupSpec == Init /\ [][CleanupNext]_vars

\* -------------------------------------------------------- two managers
\* Two CapacityReservationManager objects in one process, each running
\* create_reservation in a thread of its own. The variables above are the
\* manager whose thread holds the interpreter; peer is the other one, as a
\* record of the same fields. Each thread's time is its own: a sleep or a call
\* of one passes while the other goes on.

\* the manager that holds the interpreter, as a record
Snapshot ==
  [ variant |-> variant,
    args |-> args,
    max_retries |-> max_retries,
    retry_delay |-> retry_delay,
    max_wait_time |-> max_wait_time,
    script |-> script,
    queue |-> queue,
    pc |-> pc,
    attempt |-> attempt,
    elapsed |-> elapsed,
    last_error |-> last_error,
    calls |-> calls,
    sleeps |-> sleeps,
    slept |-> slept,
    sleptAfter |-> sleptAfter,
    issuedAt |-> issuedAt,
    callTime |-> callTime,
    served |-> served,
    naps |-> naps,
    trace |-> trace,
    sent |-> sent,
    response |-> response,
    outcome |-> outcome,
    result |-> result,
    runs |-> runs,
    prev_outcome |-> prev_outcome,
    prev_result |-> prev_result ]

\* a manager as __init__ leaves it
Manager(v, a) ==
  [ variant |-> v,
    args |-> a,
    max_retries |-> InitMaxRetries(v, a),
    retry_delay |-> InitRetryDelay(v, a),
    max_wait_time |-> a.max_wait_time,
    script |-> InitScript(v, a),
    queue |-> InitScript(v, a),
    pc |-> IF init_completes(v, a, helpers) THEN "idle" ELSE "unbuilt",
    attempt |-> 0,
    elapsed |-> 0,
    last_error |-> "None",
    calls |-> 0,
    sleeps |-> 0,
    slept |-> 0,
    sleptAfter |-> {},
    issuedAt |-> {},
    callTime |-> 0,
    served |-> << >>,
    naps |-> << >>,
    trace |-> << >>,
    sent |-> None,
    response |-> None,
    outcome |-> "none",
    result |-> IF init_completes(v, a, helpers) THEN NoResult
               ELSE Raise(init_raises(helpers)),
    runs |-> 0,
    prev_outcome |-> "none",
    prev_result |-> NoResult ]

Built(m) ==
  /\ variant = m.variant
  /\ args = m.args
  /\ max_retries = m.max_retries
  /\ retry_delay = m.retry_delay
  /\ max_wait_time = m.max_wait_time
  /\ script = m.script
  /\ queue = m.queue
  /\ pc = m.pc
  /\ attempt = m.attempt
  /\ elapsed = m.elapsed
  /\ last_error = m.last_error
  /\ calls = m.calls
  /\ sleeps = m.sleeps
  /\ slept = m.slept
  /\ sleptAfter = m.sleptAfter
  /\ issuedAt = m.issuedAt
  /\ callTime = m.callTime
  /\ served = m.served
  /\ naps = m.naps
  /\ trace = m.trace
  /\ sent = m.sent
  /\ response = m.response
  /\ outcome = m.outcome
  /\ result = m.result
  /\ runs = m.runs
  /\ prev_outcome = m.prev_outcome
  /\ prev_result = m.prev_result

\* one Stubber and one queue for both managers
self_stubber_Shared(own, current) == current

\* self.stubber = Stubber(self.ec2_client): the queue a manager resumes with
\* is the one of its own client, not the one the other manager was using
self_stubber(own, current) == own

\* the thread of m is resumed: its manager's fields and its locals (attempt,
\* start_time) are where it left them
Resume(m) ==
  /\ variant' = m.variant
  /\ args' = m.args
  /\ max_retries' = m.max_retries
  /\ retry_delay' = m.retry_delay
  /\ max_wait_time' = m.max_wait_time
  /\ script' = m.script
  /\ queue' = self_stubber(m.queue, queue)
  /\ pc' = m.pc
  /\ attempt' = m.attempt
  /\ elapsed' = m.elapsed
  /\ last_error' = m.last_error
  /\ calls' = m.calls
  /\ sleeps' = m.sleeps
  /\ slept' = m.slept
  /\ sleptAfter' = m.sleptAfter
  /\ issuedAt' = m.issuedAt
  /\ callTime' = m.callTime
  /\ served' = m.served
  /\ naps' = m.naps
  /\ trace' = m.trace
  /\ sent' = m.sent
  /\ response' = m.response
  /\ outcome' = m.outcome
  /\ result' = m.result
  /\ runs' = m.runs
  /\ prev_outcome' = m.prev_outcome
  /\ prev_result' = m.prev_result

\* the interpreter passes from one thread to the other between two steps
Switch ==
  /\ peer # None
  /\ Resume(peer)
  /\ peer' = Snapshot
  /\ UNCHANGED << cancels, main_exit, helpers >>

\* managers built by parse_args in simulation mode under the quick and the
\* slow preset, with and without an override of max_retries, with a deadline
\* that the sleeps reach and with one they do not
PairArgs ==
  [ retry_config : {"QUICK_RETRY", "SLOW_RETRY"},
    custom_max_retries : {Int_(0), Int_(1), Int_(4)},
    custom_retry_delay : {Int_(0)},
    max_wait_time : {1, 2, DefaultMaxWaitTime},
    simulation_mode : {TRUE},
    instance_type : {"t2.micro"},
    instance_count : {IntArg(1)},
    end_date_type : {"unlimited"},
    end_date : {"None"},
    sim_max_retries : {0}, sim_retry_delay : {0}, num_failures : {0},
    error_code : {""}, log_level : {"INFO"},
    cleanup_on_failure : {FALSE} ]

PairInit ==
  \E a \in PairArgs, b \in PairArgs :
    /\ helpers = "undefined"
    /\ Built(Manager("cli", a))
    /\ peer = Manager("cli", b)
    /\ cancels = << >>
    /\ main_exit = "none"

PairNext ==
  \/ runs = 0 /\ create_reservation
  \/ create_reservation_attempt
  \/ create_reservation_sleep
  \/ create_reservation_exit
  \/ Switch

PairSpec == PairInit /\ [][PairNext]_vars

\* create_reservation run to its end on manager m with nobody else around,
\* as one function of the manager and of the seconds took[k] its k-th call
\* lasts: the loop from attempt att at elapsed time el, h what the run did so far
RECURSIVE create_reservation_alone(_, _, _, _, _)
create_reservation_alone(m, took, att, el, h) ==
  IF ~cli_loop_guard(att, m.max_retries)
  THEN [h EXCEPT !.outcome = IF h.last_error # "None" THEN "exhausted" ELSE "zero",
                 !.result = Return(<< FALSE, None >>)]
  ELSE IF deadline_exceeded(el, m.max_wait_time)
  THEN [h EXCEPT !.outcome = "timeout", !.result = Return(<< FALSE, None >>)]
  ELSE LET k == Len(h.served) + 1
           o == StubCall(h.queue, Params(m.args))
           c == cli_classify(o.resp)
           returned == el + took[k]
           h1 == [h EXCEPT !.served = Append(@, Tag(o.resp)),
                           !.queue = o.queue,
                           !.last_error = IF c \in {"retryable", "fatal"}
                                          THEN o.resp.code ELSE @]
       IN IF c # "retryable"
          THEN [h1 EXCEPT !.outcome = OutcomeOf(c),
                          !.result = cli_result(c, o.resp, NoResult)]
          ELSE IF ~cli_should_sleep(next_attempt(att), m.max_retries)
          THEN create_reservation_alone(m, took, next_attempt(att), returned, h1)
          ELSE IF m.retry_delay < 0
          THEN [h1 EXCEPT !.outcome = "error", !.result = Raise("ValueError")]
          ELSE LET len == sleep_length(m.retry_delay, Len(h.naps) + 1) IN
               create_reservation_alone(m, took, next_attempt(att), returned + len,
                 [h1 EXCEPT !.naps = Append(@, [at |-> returned, len |-> len,
                                                after |-> k])])

\* the first run of create_reservation on the manager built from m's
\* arguments, alone
Alone(m, took) ==
  create_reservation_alone(Manager("cli", m.args), took, 0, 0,
    [served |-> << >>, naps |-> << >>, queue |-> InitScript("cli", m.args),
     last_error |-> "None", outcome |-> "none", result |-> NoResult])

\* ================================================================ claims
ValidPolicy == max_retries >= 1 /\ retry_delay >= 0

\* the responses scheduled are those of the construction (__init__'s
\* setup_simulation, run_simulation's loop): nothing was scheduled later
AsScheduled == script = InitScript(variant, args)

\* every response of the current run was the variant's capacity shortage
AllShortages == \A i \in 1..Len(served) : served[i] = CapacityCode(variant)

\* the current run received max_retries - 1 shortages and then a success
ShortagesThenSuccess ==
  /\ Len(served) = max_retries
  /\ \A i \in 1..(max_retries - 1) : served[i] = CapacityCode(variant)
  /\ served[max_retries] = "ok"

\* C1: for max_retries = N >= 1, a run of the cli driver or of the real driver
\* that is answered N-1 capacity shortages and then a success ends in success
\* after exactly N creation calls and returns the record of the N-th call; and
\* no fewer calls are made: with a delay >= 0 (as a RetryPolicy has) a run
\* answered with shortages only ends before its N-th call only by the deadline.
C1_SuccessOnNthAttempt ==
  (variant \in {"cli", "real"} /\ max_retries >= 1 /\ pc = "done") =>
    /\ ShortagesThenSuccess =>
         /\ outcome = "success"
         /\ calls = max_retries
         /\ result.raised = "none"
         /\ result.ret = IF variant = "cli" THEN << TRUE, response.payload >>
                         ELSE response.payload
    /\ (retry_delay >= 0 /\ AllShortages /\ Len(served) < max_retries) =>
         outcome = "timeout"

C1_Witness ==
  /\ variant = "cli" /\ pc = "done" /\ max_retries = 20
  /\ ShortagesThenSuccess /\ outcome = "success" /\ calls = 20

\* the run is offered a response sequence of max_retries capacity shortages:
\* scheduled on the Stubber when the client is stubbed, the answer to every
\* call otherwise
OfferedNShortages ==
  IF Stubbed(variant, args)
  THEN /\ runs = 1
       /\ Len(script) = max_retries
       /\ \A i \in 1..Len(script) :
            script[i].kind = "error" /\ script[i].code = CapacityCode(variant)
  ELSE AllShortages

ExhaustedAfterN ==
  /\ outcome = "exhausted"
  /\ calls = max_retries
  /\ sleeps = max_retries - 1
  /\ sleptAfter = 1..(max_retries - 1)

\* C2 as stated: for every N >= 1 (and a delay >= 0, as a RetryPolicy has), N
\* capacity shortages make every variant end exhausted after exactly N calls
\* and N-1 sleeps, none after the N-th call.
C2_Original ==
  (ValidPolicy /\ pc = "done" /\ OfferedNShortages) => ExhaustedAfterN

\* C2 amended: the same, for the cli driver only when its deadline check does
\* not fire; when it fires the cli run ends in the timeout outcome after fewer
\* than N calls, each but the last followed by a sleep.
C2_ExhaustedUnlessDeadline ==
  (ValidPolicy /\ pc = "done" /\ OfferedNShortages) =>
    IF outcome = "timeout"
    THEN /\ variant = "cli"
         /\ elapsed >= max_wait_time
         /\ calls < max_retries
         /\ sleeps = calls
    ELSE ExhaustedAfterN

C2_Witness ==
  /\ variant = "cli" /\ pc = "done" /\ ~args.simulation_mode
  /\ max_retries = 3 /\ OfferedNShortages /\ outcome = "exhausted"
  /\ calls = 3 /\ sleeps = 2

\* C3: when the first creation call of the cli driver or of the real driver
\* fails with a code other than the driver's capacity-shortage code, the run is
\* over at once: one call, no sleep, whatever max_retries is.
C3_FatalEndsAtOnce ==
  (/\ variant \in {"cli", "real"}
   /\ Len(served) >= 1
   /\ served[1] \in Codes \ {CapacityCode(variant)}) =>
    /\ pc = "done"
    /\ outcome = "fatal"
    /\ calls = 1
    /\ Len(served) = 1
    /\ sleeps = 0

C3_Witness ==
  /\ variant = "cli" /\ max_retries = 20 /\ served = << OtherCode >>
  /\ pc = "done" /\ calls = 1 /\ sleeps = 0

\* C4: the cli driver issues no creation call at an elapsed time >=
\* max_wait_time; with max_wait_time = 0 it issues none at all; and a run that
\* ends in the timeout outcome made no call in its last iteration and returns
\* (False, None).
C4_NoCallPastDeadline ==
  variant = "cli" =>
    /\ \A e \in issuedAt : e < max_wait_time
    /\ max_wait_time = 0 => calls = 0
    /\ outcome = "timeout" =>
         /\ pc = "done"
         /\ elapsed >= max_wait_time
         /\ calls = attempt - 1
         /\ Len(served) = calls
         /\ result = Return(<< FALSE, None >>)

C4_Witness ==
  /\ variant = "cli" /\ outcome = "timeout" /\ calls = 2
  /\ max_wait_time > 0

\* C5: in a cli run whose calls take no time and all fail with the capacity
\* shortage, with a delay retry_delay >= 0 between attempts, if
\* k * retry_delay >= max_wait_time for some k < max_retries, the
\* run ends in the timeout outcome after at most k + 1 calls for every such k,
\* at an elapsed time that exceeds max_wait_time by at most retry_delay.
C5_TimeoutWithinOneDelay ==
  (/\ variant = "cli" /\ pc = "done" /\ retry_delay >= 0
   /\ callTime = 0 /\ AllShortages
   /\ \E k \in 0..(max_retries - 1) : k * retry_delay >= max_wait_time) =>
    /\ outcome = "timeout"
    /\ \A k \in 0..(max_retries - 1) :
         k * retry_delay >= max_wait_time => calls <= k + 1
    /\ elapsed >= max_wait_time
    /\ elapsed - max_wait_time <= retry_delay

C5_Witness ==
  /\ variant = "cli" /\ pc = "done" /\ outcome = "timeout"
  /\ callTime = 0 /\ AllShortages /\ calls = 2
  /\ elapsed > max_wait_time

FailureKinds == {"timeout", "exhausted", "fatal"}

\* C6: two runs of create_reservation that fail in different ways (deadline,
\* attempts exhausted, fatal provider error) return different values.
C6_FailuresDistinguishable ==
  (/\ variant = "cli" /\ pc = "done"
   /\ outcome \in FailureKinds /\ prev_outcome \in FailureKinds
   /\ outcome # prev_outcome) =>
    result # prev_result

\* C7: in every state of a run of any variant, whatever the provider answers,
\* the creation calls issued so far number at most max_retries (and none is
\* issued when an override makes max_retries less than 1).
C7_CallsAtMostMaxRetries ==
  calls <= (IF max_retries >= 1 THEN max_retries ELSE 0)

C7_Witness ==
  /\ variant = "sim" /\ max_retries = 20 /\ Len(script) = 20
  /\ pc = "done" /\ outcome = "exhausted" /\ calls = 20 /\ queue = << >>

ResponseOf(entry) ==
  IF entry.kind = "error" THEN ClientError(entry.code)
  ELSE Response(entry.service_response)

\* scheduled responses consumed so far
Consumed == Len(script) - Len(queue)

\* C8: on a stubbed client the scheduled responses are handed out in the order
\* scheduled, one per call; a call that finds the queue empty or whose
\* parameters differ from the expected ones gets a harness error and consumes
\* nothing; a harness error is the last response of the run: it is raised to
\* the caller, is not recorded as a provider error, and is followed by no
\* sleep and no further call.
C8_HarnessOrderAndErrors ==
  /\ [](Stubbed(variant, args) =>
         /\ Consumed >= 0
         /\ queue = SubSeq(script, Consumed + 1, Len(script))
         /\ (calls >= 1 /\ response.kind \notin HarnessErrors) =>
              /\ Consumed >= 1
              /\ response = ResponseOf(script[Consumed])
              /\ script[Consumed].expected_params = sent
              /\ runs = 1 => Consumed = calls
         /\ \A i \in 1..Len(served) :
              served[i] \in HarnessErrors =>
                /\ i = Len(served)
                /\ pc = "done"
                /\ outcome = "harness"
                /\ result = Raise(served[i])
                /\ last_error # served[i]
                /\ i \notin sleptAfter)
  /\ [][(Stubbed(variant, args) /\ calls' = calls + 1) =>
         IF queue = << >>
         THEN response'.kind = "UnStubbedResponseError" /\ queue' = queue
         ELSE IF Head(queue).expected_params # sent'
         THEN response'.kind = "StubAssertionError" /\ queue' = queue
         ELSE response' = ResponseOf(Head(queue)) /\ queue' = Tail(queue)]_vars

C8_Witness ==
  /\ variant = "sim" /\ pc = "done" /\ outcome = "harness"
  /\ served[Len(served)] = "UnStubbedResponseError"
  /\ calls = 3 /\ calls < max_retries /\ sleeps = 2

NoOverride(x) == ~x.present \/ x.v = 0

\* C9: the first simulation-mode run of the cli driver under QUICK_RETRY with
\* no override and the default max_wait_time gets a capacity shortage on
\* attempts 1 and 2 and a success on attempt 3, sleeps after attempts 1 and 2
\* only, 2 seconds in all, and returns (True, record) with TotalInstanceCount
\* equal to the instance count of the request.
C9_FastPresetScenario ==
  (/\ variant = "cli" /\ args.simulation_mode
   /\ args.retry_config = "QUICK_RETRY"
   /\ NoOverride(args.custom_max_retries) /\ NoOverride(args.custom_retry_delay)
   /\ max_wait_time = DefaultMaxWaitTime
   /\ runs = 1 /\ pc = "done") =>
    /\ served = << CliCapacityCode, CliCapacityCode, "ok" >>
    /\ calls = 3
    /\ sleeps = 2
    /\ slept = 2
    /\ sleptAfter = {1, 2}
    /\ outcome = "success"
    /\ result.raised = "none"
    /\ result.ret[1] = TRUE
    /\ result.ret[2].TotalInstanceCount = PyInt(args.instance_count)
    /\ result.ret[2].TotalInstanceCount = sent.InstanceCount

C9_Witness ==
  /\ variant = "cli" /\ args.simulation_mode
  /\ args.retry_config = "QUICK_RETRY"
  /\ ~args.custom_max_retries.present /\ ~args.custom_retry_delay.present
  /\ args.instance_count = StrArg(2)
  /\ runs = 1 /\ pc = "done" /\ outcome = "success" /\ slept = 2

\* C10: in simulation mode, with end_date_type 'limited' and an end date E the
\* request sent and the record returned on success both carry EndDate = E; with
\* 'unlimited' neither has an EndDate field, whatever end_date holds; the
\* request always matches the expected parameters declared to the harness.
C10_EndDateRoundTrip ==
  (variant = "cli" /\ args.simulation_mode /\ calls >= 1) =>
    /\ (args.end_date_type = "limited" /\ Truthy(args.end_date)) =>
         /\ "EndDate" \in DOMAIN sent
         /\ sent.EndDate = args.end_date
         /\ outcome = "success" =>
              /\ "EndDate" \in DOMAIN result.ret[2]
              /\ result.ret[2].EndDate = args.end_date
    /\ args.end_date_type = "unlimited" =>
         /\ "EndDate" \notin DOMAIN sent
         /\ outcome = "success" => "EndDate" \notin DOMAIN result.ret[2]
    /\ response.kind # "StubAssertionError"
    /\ "StubAssertionError" \notin { served[i] : i \in 1..Len(served) }

C10_Witness ==
  /\ variant = "cli" /\ args.simulation_mode
  /\ args.end_date_type = "limited" /\ args.end_date = EndDateValue
  /\ pc = "done" /\ outcome = "success"
  /\ result.ret[2].EndDate = EndDateValue

\* an override option is in force unless it is missing, None or 0
Overrides(x) == x.present /\ x.v # 0

\* the policy a manager has when args.custom_retry_delay is o
DelayWith(o) == EffectiveRetryDelay([args EXCEPT !.custom_retry_delay = o])
RetriesWith(o) == EffectiveMaxRetries([args EXCEPT !.custom_max_retries = o])

\* the presets hold 3/1, 2/2 and 20/3 in all three source files
PresetsAgree ==
  /\ RETRY_CONFIG.QUICK_RETRY.max_retries = 3
  /\ RETRY_CONFIG.QUICK_RETRY.retry_delay_seconds = 1
  /\ RETRY_CONFIG.SLOW_RETRY.max_retries = 2
  /\ RETRY_CONFIG.SLOW_RETRY.retry_delay_seconds = 2
  /\ RETRY_CONFIG.EXTENSIVE_RETRY.max_retries = 20
  /\ RETRY_CONFIG.EXTENSIVE_RETRY.retry_delay_seconds = 3
  /\ \A p \in PresetNames :
       /\ RETRY_CONFIG_real[p] = RETRY_CONFIG[p]
       /\ RETRY_CONFIG_test[p].max_retries = RETRY_CONFIG[p].max_retries
       /\ RETRY_CONFIG_test[p].retry_delay_seconds = RETRY_CONFIG[p].retry_delay_seconds

\* each field of a cli manager's policy is the override when one is in force
\* and the preset's value otherwise, from construction to the end of every run
PolicyFromPresetAndOverrides ==
  /\ max_retries = IF Overrides(args.custom_max_retries)
                   THEN args.custom_max_retries.v
                   ELSE RETRY_CONFIG[args.retry_config].max_retries
  /\ retry_delay = IF Overrides(args.custom_retry_delay)
                   THEN args.custom_retry_delay.v
                   ELSE RETRY_CONFIG[args.retry_config].retry_delay_seconds

\* one field is the same whatever the override of the other
FieldsIndependent ==
  /\ \A o \in CustomDelays \cup {Absent} :
       EffectiveMaxRetries([args EXCEPT !.custom_retry_delay = o]) = max_retries
  /\ \A o \in CustomRetries \cup {Absent} :
       EffectiveRetryDelay([args EXCEPT !.custom_max_retries = o]) = retry_delay

\* a manager as __init__ leaves it
Constructed == pc = "idle"

\* C11 as stated: the policy of a cli manager is the preset's, each field
\* replaced independently by its override when one is supplied, the presets
\* are the same in the three files, and every permitted value of a field, a
\* delay of 0 among them, can be set by override (what another override would
\* give is looked at once, on the manager as constructed).
C11_Original ==
  variant = "cli" =>
    /\ PolicyFromPresetAndOverrides
    /\ Constructed =>
         /\ PresetsAgree
         /\ FieldsIndependent
         /\ \A n \in 1..MaxCustomRetries : \E o \in CustomRetries : RetriesWith(o) = n
         /\ \A d \in 0..MaxCustomDelay : \E o \in CustomDelays : DelayWith(o) = d

\* C11 amended: the same, except that an override of 0 is no override: it
\* leaves the preset's value, so every value but 0 can be set by override and
\* a delay of 0 cannot (no preset has it either).
C11_OverrideUnlessZero ==
  variant = "cli" =>
    /\ PolicyFromPresetAndOverrides
    /\ retry_delay # 0
    /\ Constructed =>
         /\ PresetsAgree
         /\ FieldsIndependent
         /\ \A o \in CustomRetries :
              RetriesWith(o) = IF o.v # 0 THEN o.v
                               ELSE RETRY_CONFIG[args.retry_config].max_retries
         /\ \A o \in CustomDelays :
              DelayWith(o) = IF o.v # 0 THEN o.v
                             ELSE RETRY_CONFIG[args.retry_config].retry_delay_seconds

C11_Witness ==
  /\ variant = "cli" /\ pc = "done" /\ calls >= 1
  /\ args.retry_config = "SLOW_RETRY"
  /\ args.custom_max_retries = Int_(4) /\ args.custom_retry_delay = Int_(0)
  /\ max_retries = 4 /\ retry_delay = 2

\* C12: every cli manager that parse_args and __init__ build has
\* max_retries >= 1 and retry_delay >= 0, so every run of create_reservation
\* with a positive max_wait_time issues at least one creation call.
C12_PolicyValid ==
  variant = "cli" =>
    /\ max_retries >= 1
    /\ retry_delay >= 0
    /\ (pc = "done" /\ max_wait_time > 0) => calls >= 1

\* C13: the cli driver (under a policy with max_retries >= 1 and a delay
\* >= 0) starts no sleep at an elapsed time >= max_wait_time: a shortage on an
\* attempt that is not the last, met at or over the deadline, leads to the
\* timeout outcome without a sleep.
C13_NoSleepPastDeadline ==
  (variant = "cli" /\ ValidPolicy) =>
    /\ pc = "sleep" => elapsed < max_wait_time
    /\ \A i \in 1..Len(naps) : naps[i].at < max_wait_time

\* C15: in the simulator (under a policy with max_retries >= 1 and a delay
\* >= 0) a scripted error whose code is not the capacity shortage is fatal: it
\* is followed by no further call and no sleep.
C15_SimOtherCodeFatal ==
  (/\ variant = "sim" /\ ValidPolicy
   /\ Len(served) >= 1
   /\ served[1] \in Codes \ {SimDefaultCode}) =>
    /\ calls = 1
    /\ pc # "sleep"
    /\ sleeps = 0

\* C16: for every max_retries N >= 1 (and a delay >= 0), setup_simulation
\* schedules errors for attempts 1..N-1 and the success for attempt N, so the
\* first simulation-mode run of the cli driver that meets no deadline ends in
\* success on attempt N.
C16_SuccessOnLastAttempt ==
  (variant = "cli" /\ args.simulation_mode /\ ValidPolicy /\ AsScheduled) =>
    /\ Len(script) = max_retries
    /\ \A i \in 1..(max_retries - 1) : script[i].kind = "error"
    /\ script[max_retries].kind = "response"
    /\ (runs = 1 /\ pc = "done" /\ outcome # "timeout") =>
         /\ outcome = "success"
         /\ calls = max_retries
         /\ attempt = max_retries

\* C14: in the cli driver a capacity shortage on the final permitted attempt
\* (attempt number = max_retries) is followed by no sleep and ends the run in
\* the exhausted outcome, never in the timeout outcome, also when the elapsed
\* time has reached max_wait_time; the timeout outcome comes only from the
\* check that opens an iteration, before that iteration's call.
C14_FinalShortageExhausts ==
  variant = "cli" =>
    /\ (calls >= 1 /\ calls = max_retries /\ served[calls] = CliCapacityCode) =>
         /\ pc \in {"loop", "done"}
         /\ attempt = max_retries
         /\ outcome # "timeout"
         /\ pc = "done" => (outcome = "exhausted" /\ result = Return(<< FALSE, None >>))
    /\ outcome = "timeout" =>
         /\ calls = attempt - 1
         /\ calls < max_retries
         /\ calls >= 1 => (served[calls] = CliCapacityCode /\ calls \in sleptAfter)

C14_Witness ==
  /\ variant = "cli" /\ pc = "done" /\ outcome = "exhausted"
  /\ calls = max_retries /\ served[calls] = CliCapacityCode
  /\ max_wait_time > 0 /\ elapsed >= max_wait_time

\* the response with tag t is one the variant's driver retries
IsRetryable(v, t) ==
  /\ t \in Codes
  /\ IF v = "cli" THEN cli_classify(ClientError(t)) = "retryable"
     ELSE IF v = "real" THEN real_classify(ClientError(t)) = "retryable"
     ELSE sim_classify(ClientError(t)) = "retryable"

\* the calls of the current run that are due a sleep: failed with a retryable
\* error on an attempt numbered below max_retries
DueSleep == { i \in 1..Len(served) : IsRetryable(variant, served[i]) /\ i < max_retries }

\* C17: in every run of every variant under a policy with max_retries >= 1 and
\* a delay >= 0, the calls followed by a sleep are exactly those that failed
\* with a retryable error on an attempt numbered below max_retries; every sleep
\* lasts exactly retry_delay, whatever its number; and a run that ends in
\* success or exhaustion after c calls slept c-1 times, (c-1)*retry_delay in all.
C17_FixedDelaySleeps ==
  ValidPolicy =>
    /\ sleptAfter \cup (IF pc = "sleep" THEN {calls} ELSE {}) = DueSleep
    /\ pc = "sleep" => calls \notin sleptAfter
    /\ sleeps = Len(naps)
    /\ sleeps = Cardinality(sleptAfter)
    /\ \A i \in 1..Len(naps) : naps[i].len = retry_delay /\ naps[i].after = i
    /\ slept = sleeps * retry_delay
    /\ (pc = "done" /\ outcome \in {"success", "exhausted"}) =>
         /\ sleeps = calls - 1
         /\ slept = (calls - 1) * retry_delay

C17_Witness ==
  /\ variant = "real" /\ pc = "done" /\ outcome = "exhausted"
  /\ max_retries = 20 /\ calls = 20 /\ sleeps = 19 /\ slept = 57

\* C18: when a run of create_reservation is over, it returned (True, record)
\* exactly when its last creation call returned a success payload, and the
\* record is that payload; a run ended by the deadline, by exhaustion, by a
\* fatal error or with no attempt at all returned (False, None); a run ended
\* by an exception returned nothing.
C18_RecordOnlyFromSuccess ==
  (variant = "cli" /\ pc = "done") =>
    /\ (result.raised = "none" /\ result.ret[1] = TRUE)
         <=> (calls >= 1 /\ served[calls] = "ok")
    /\ (calls >= 1 /\ served[calls] = "ok") =>
         /\ outcome = "success"
         /\ response.kind = "response"
         /\ result = Return(<< TRUE, response.payload >>)
    /\ outcome \in {"timeout", "exhausted", "fatal", "zero"} =>
         result = Return(<< FALSE, None >>)
    /\ outcome \in {"harness", "error"} =>
         (result.raised # "none" /\ result.ret = None)
    /\ outcome # "none"

C18_Witness ==
  /\ variant = "cli" /\ pc = "done" /\ ~args.simulation_mode
  /\ calls = 2 /\ served = << CliCapacityCode, "ok" >>
  /\ result = Return(<< TRUE, response.payload >>)
  /\ prev_outcome = "fatal" /\ prev_result = Return(<< FALSE, None >>)

Running == pc \in {"loop", "sleep"}

Ceiling == IF max_retries >= 0 THEN max_retries ELSE 0

\* how far a run has got: twice the attempt counter, a sleep counting as the
\* half step between two tests of the loop condition (the cli increments the
\* counter before the sleep, the other two drivers after it)
Rank ==
  2 * attempt + (IF pc = "sleep" THEN (IF variant = "cli" THEN -1 ELSE 1) ELSE 0)

\* C19: every run of every variant, whatever the provider answers and whatever
\* the policy, ends: it returns or raises after finitely many steps. Every step
\* of a run that does not end it brings the attempt counter forward, and the
\* counter never passes max_retries (0 when max_retries is negative).
C19_RunsTerminate ==
  /\ Running ~> (pc = "done")
  /\ [][(Running /\ pc' # "done") => (Running' /\ Rank' > Rank)]_vars
  /\ [](Running => (attempt <= Ceiling /\ Rank <= 2 * Ceiling))

C19_Witness ==
  /\ variant = "cli" /\ ~args.simulation_mode /\ pc = "done"
  /\ max_retries = 20 /\ attempt = 20 /\ outcome = "exhausted" /\ sleeps = 19

IsCall(e) == e.ev = "call"
IsAttempt(e) == e.ev = "log" /\ e.msg = "Attempt"

\* the 'Attempt k of N' entries of the current run, in the order logged
AttemptEntries == SelectSeq(trace, IsAttempt)

\* the entry create_reservation logs for a call that failed with code t
OutcomeEntry(t) ==
  IF IsRetryable("cli", t) THEN Entry("WARNING", "Insufficient capacity", 0, 0)
  ELSE Entry("ERROR", "Error creating capacity reservation", 0, 0)

\* the root logger lets an entry of this level through
Shows(level) == LevelNo(level) >= LevelNo(LogLevel(variant, args))

\* the entries 'Attempt k of N' logged are those of k = 1, 2, 3, ... with
\* N = max_retries, as many as the calls, and each is directly followed by a
\* call and each call directly preceded by one: the k-th call follows the
\* entry of ordinal k
AttemptsLogged ==
  LET logged == AttemptEntries IN
  /\ Len(logged) = calls
  /\ \A k \in 1..calls : logged[k].k = k /\ logged[k].n = max_retries
  /\ \A i \in 1..Len(trace) :
       /\ IsCall(trace[i]) => (i > 1 /\ IsAttempt(trace[i - 1]))
       /\ IsAttempt(trace[i]) =>
            (i < Len(trace) /\ IsCall(trace[i + 1]) /\ trace[i].level = "INFO")

\* C20 as stated: every creation call of create_reservation is preceded by the
\* log entry of its ordinal, the ordinals of a run are 1, 2, 3, ... and as many
\* as its calls, and every call that failed with a provider error is followed
\* at once, before any next call, by the log entry of its classified outcome.
C20_Original ==
  variant = "cli" =>
    /\ Len(SelectSeq(trace, IsCall)) = calls
    /\ AttemptsLogged
    /\ \A i \in 1..Len(trace) :
         (IsCall(trace[i]) /\ trace[i].tag \in Codes) =>
           (i < Len(trace) /\ trace[i + 1] = OutcomeEntry(trace[i].tag))

\* C20 amended: the same as far as --log-level lets the entries through: the
\* attempt entries are logged at INFO, so they are there at the levels DEBUG
\* and INFO and missing at WARNING and ERROR; the outcome of a failed call is
\* logged at WARNING for a capacity shortage and at ERROR for another error,
\* and follows the call at once whenever the level lets it through.
C20_LoggedAsLevelAllows ==
  variant = "cli" =>
    /\ Len(SelectSeq(trace, IsCall)) = calls
    /\ IF Shows("INFO") THEN AttemptsLogged ELSE AttemptEntries = << >>
    /\ \A i \in 1..Len(trace) :
         (IsCall(trace[i]) /\ trace[i].tag \in Codes) =>
           IF Shows(OutcomeEntry(trace[i].tag).level)
           THEN i < Len(trace) /\ trace[i + 1] = OutcomeEntry(trace[i].tag)
           ELSE i = Len(trace) \/ IsCall(trace[i + 1])
                \/ trace[i + 1].level = "ERROR"

C20_Witness ==
  /\ variant = "cli" /\ pc = "done" /\ args.log_level = "INFO"
  /\ served = << CliCapacityCode, CliCapacityCode, OtherCode >>
  /\ Len(AttemptEntries) = 3
  /\ Len(trace) >= 2
  /\ trace[Len(trace) - 1] = Entry("ERROR", "Error creating capacity reservation", 0, 0)
  /\ trace[Len(trace)] = Entry("ERROR", "Failed after", 3, 0)

\* the end-date invariant of a request: an EndDate value exactly when the
\* EndDateType is 'limited'
EndDateInvariant(p) ==
  /\ p.EndDateType = "limited" => ("EndDate" \in DOMAIN p /\ Truthy(p.EndDate))
  /\ p.EndDateType = "unlimited" => "EndDate" \notin DOMAIN p

\* C21: for all arguments parse_args or the prompts produce, every creation
\* request create_reservation sends and every expected-parameter shape
\* setup_simulation declares has an EndDate value when its EndDateType is
\* 'limited' and none when it is 'unlimited'.
C21_EndDateInvariant ==
  variant = "cli" =>
    /\ calls >= 1 => EndDateInvariant(sent)
    /\ \A i \in 1..Len(script) : EndDateInvariant(script[i].expected_params)

\* the elapsed time at which manager m issued its k-th call: the first at 0,
\* the others when the sleep before them ended
IssuedAtOf(m, k) == IF k = 1 THEN 0 ELSE m.naps[k - 1].at + m.naps[k - 1].len

\* the seconds the calls of manager m's run lasted (0 for calls not yet made)
TookOf(m) ==
  [k \in 1..(m.max_retries + 1) |->
     IF k > m.calls THEN 0
     ELSE IF k <= Len(m.naps) THEN m.naps[k].at - IssuedAtOf(m, k)
     ELSE m.elapsed - IssuedAtOf(m, k)]

IsPrefix(s, t) == Len(s) <= Len(t) /\ s = SubSeq(t, 1, Len(s))

\* what manager m did so far is what its run does alone, given the same call
\* durations: the same calls with the same answers and the same sleeps in the
\* same order, the same outcome and result once it is over, and its queue is
\* its own script less the responses its own calls consumed
SameAsAlone(m) ==
  LET alone == Alone(m, TookOf(m)) IN
  /\ IsPrefix(m.served, alone.served)
  /\ IsPrefix(m.naps, alone.naps)
  /\ m.calls = Len(m.served)
  /\ m.sleeps = Len(m.naps)
  /\ m.queue = SubSeq(m.script, m.calls + 1, Len(m.script))
  /\ m.elapsed = m.callTime + m.slept
  /\ m.pc = "done" =>
       /\ m.served = alone.served
       /\ m.naps = alone.naps
       /\ m.outcome = alone.outcome
       /\ m.result = alone.result
       /\ m.queue = alone.queue

\* the attempt counter of manager m's run counts m's own calls (and the
\* iteration the deadline check ended, if it did)
OwnCounter(m) ==
  m.attempt = m.calls + (IF m.outcome = "timeout" THEN 1 ELSE 0)

\* C22: two managers, each with its own stubbed client, whose runs of
\* create_reservation are interleaved in any order: each issues the calls and
\* sleeps and reaches the outcome of its run alone, and its attempt counter,
\* clock and queue are moved by its own steps only.
C22_InstancesIndependent ==
  peer # None =>
    /\ SameAsAlone(Snapshot) /\ OwnCounter(Snapshot)
    /\ SameAsAlone(peer) /\ OwnCounter(peer)

C22_Witness ==
  /\ peer # None
  /\ pc = "done" /\ outcome = "timeout" /\ calls = 1
  /\ peer.pc = "sleep" /\ peer.calls = 2 /\ peer.args # args
  /\ peer.queue # queue

\* C23: no step of a run of a driver's creation operation, from its entry to
\* its end in any outcome, issues a cancel call (not with --cleanup-on-failure
\* either); every cancel call that reaches the provider was issued by
\* cleanup_reservation, for the identifier it was given, while no run was in
\* progress; the cli and the simulator issue none at all.
C23_CancelOnlyOnRequest ==
  /\ [](\A i \in 1..Len(cancels) :
          cancels[i].op = "cleanup_reservation" /\ cancels[i].id \in ReservationIds)
  /\ [](variant # "real" => cancels = << >>)
  /\ [][(pc \in {"loop", "sleep"} \/ pc' \in {"loop", "sleep"}) =>
          cancels' = cancels]_vars
  /\ [][cancels' # cancels =>
          /\ pc \in {"idle", "done"}
          /\ Len(cancels') = Len(cancels) + 1
          /\ SubSeq(cancels', 1, Len(cancels)) = cancels
          /\ UNCHANGED << calls, served, outcome, queue >>]_vars

C23_Witness ==
  /\ variant = "real" /\ pc = "done" /\ outcome = "success" /\ calls = 2
  /\ result.ret.CapacityReservationId = "cr-live"
  /\ main_exit = "none"
  /\ cancels = << Cancel("cr-live", "cleanup_reservation", FALSE) >>

\* a response as the classifiers see it, from its tag in the history of a run
Answer(t) ==
  IF t = "ok" THEN Response(None)
  ELSE IF t \in Codes THEN ClientError(t)
  ELSE HarnessError(t)

Classify(v, r) == IF v = "cli" THEN cli_classify(r) ELSE real_classify(r)
LoopGuard(v, att, n) == IF v = "cli" THEN cli_loop_guard(att, n) ELSE real_loop_guard(att, n)
\* made calls so far: the cli tests its counter after the increment
ShouldSleep(v, made, n) ==
  IF v = "cli" THEN cli_should_sleep(made + 1, n) ELSE real_should_sleep(made, n)

\* driver v (cli or real) with max_retries n and no deadline in the way,
\* answered s[1], s[2], ... : the calls and sleeps it makes and how it ends,
\* "none" if it is still asking when s is used up
RECURSIVE Machine(_, _, _, _, _)
Machine(v, n, s, made, slept_) ==
  IF ~LoopGuard(v, made, n)
  THEN [calls |-> made, sleeps |-> slept_,
        outcome |-> IF made = 0 THEN "zero" ELSE "exhausted"]
  ELSE IF made + 1 > Len(s)
  THEN [calls |-> made + 1, sleeps |-> slept_, outcome |-> "none"]
  ELSE LET c == Classify(v, Answer(s[made + 1])) IN
       IF c # "retryable"
       THEN [calls |-> made + 1, sleeps |-> slept_, outcome |-> OutcomeOf(c)]
       ELSE Machine(v, n, s, made + 1,
                    slept_ + (IF ShouldSleep(v, made, n) THEN 1 ELSE 0))

OtherDriver(v) == IF v = "cli" THEN "real" ELSE "cli"

\* C24: a finished run of the cli driver that met no deadline, or of the real
\* driver, under a policy with max_retries >= 1 and a delay >= 0: the other of
\* the two drivers, with the same max_retries and given the same responses in
\* the same order, classifies each of them the same way, makes as many calls
\* and as many sleeps and ends in the same outcome.
C24_DriversEquivalent ==
  (/\ variant \in {"cli", "real"} /\ ValidPolicy
   /\ pc = "done" /\ outcome \in {"success", "exhausted", "fatal"}) =>
    LET other == Machine(OtherDriver(variant), max_retries, served, 0, 0) IN
    /\ \A i \in 1..Len(served) :
         cli_classify(Answer(served[i])) = real_classify(Answer(served[i]))
    /\ other.calls = calls
    /\ other.sleeps = sleeps
    /\ other.outcome = outcome

\* Machine is the driver itself: it tells the calls, sleeps and outcome of
\* the run of its own variant
MachineIsDriver ==
  (/\ variant \in {"cli", "real"} /\ ValidPolicy
   /\ pc = "done" /\ outcome \in {"success", "exhausted", "fatal"}) =>
    LET own == Machine(variant, max_retries, served, 0, 0) IN
    own.calls = calls /\ own.sleeps = sleeps /\ own.outcome = outcome

\* C25: in simulation mode, under a policy with max_retries >= 1 and a delay
\* >= 0, a run of create_reservation that ends in success or in exhaustion
\* leaves no scheduled response in the harness queue, and a later run on the
\* same manager does not end in success (there is no success left for it).
C25_NoLeftoverResponse ==
  (variant = "cli" /\ args.simulation_mode /\ ValidPolicy /\ pc = "done"
   /\ AsScheduled) =>
    /\ (runs = 1 /\ outcome \in {"success", "exhausted"}) => queue = << >>
    /\ runs >= 2 => outcome # "success"

\* run_simulation was called with one of the three presets of RETRY_CONFIG
IsPresetSimulation ==
  \E p \in PresetNames :
    /\ args.sim_max_retries = RETRY_CONFIG_test[p].max_retries
    /\ args.sim_retry_delay = RETRY_CONFIG_test[p].retry_delay_seconds
    /\ args.num_failures = RETRY_CONFIG_test[p].num_failures

\* C26: run_simulation(max_retries, retry_delay, num_failures), for every
\* max_retries >= 1, delay >= 0 and num_failures: no call meets a harness
\* error, nothing is raised, no call is made beyond the scheduled failures;
\* and with a preset of RETRY_CONFIG the run ends exhausted after max_retries
\* calls with the queue empty.
C26_SimulationNeverViolates ==
  (variant = "sim" /\ ValidPolicy /\ args.error_code = SimDefaultCode /\ runs = 1
   /\ AsScheduled) =>
    /\ outcome # "harness"
    /\ result.raised = "none"
    /\ \A i \in 1..Len(served) : served[i] \notin HarnessErrors
    /\ calls <= args.num_failures
    /\ (IsPresetSimulation /\ pc = "done") =>
         /\ outcome = "exhausted"
         /\ calls = max_retries
         /\ calls = args.num_failures
         /\ queue = << >>

====
